---- MODULE Spec2Model ----
(***************************************************************************)
(* Model of sort_folder.py: the ImageGui review session (vote, vote_key,   *)
(* save, show_next_image, _copy_image, _add_to_dict, _restart_from_file)   *)
(* and the script's main block, over a small file system that persists    *)
(* from one run of the script to the next.                                 *)
(*                                                                         *)
(* A path is the sequence of its components (<<"in", "a.jpg">> stands for  *)
(* in/a.jpg), so os.path.split is (Front, Last) and os.path.join is \o.    *)
(* Python's 0-based self.index is kept as is: paths[self.index] is         *)
(* paths[index + 1] here.                                                   *)
(***************************************************************************)
EXTENDS Integers, Sequences, FiniteSets, TLC

\* ------------------------------------------------------------------ bounds
MaxImages == 3      \* image files in the input folder at most
MaxLines == 1       \* lines of a manifest file found at the very first start
MaxRuns == 2        \* launches of the script / constructions of the GUI
MaxRemoved == 1     \* image files removed from outside while the tool is used

\* ------------------------------------------------------------ the inputs
\* --labels: the configured labels, in order (cat is key 1, dog is key 2)
labels == <<"cat", "dog">>
n_labels == Len(labels)
LabelSet == {labels[i] : i \in 1..n_labels}
\* a label no button offers: vote() called with it directly
OtherLabel == "bird"

\* --folder and --image_folder
input_folder == <<"in">>
imgfold == <<"img">>

\* the image files the input folder may hold, in os.listdir's (stable) order
DirOrder == <<"a.jpg", "b.jpg", "c.jpg", "d.jpg", "e.jpg">>
\* the lines of the --textfile list, relative to imgfold (the third line names
\* the first image once more)
TextLines == <<<<"a.jpg">>, <<"sub", "a.jpg">>, <<"a.jpg">>>>
\* a line of a manifest file that was there before the first run
OldLine == "z.jpg"
\* the content of a file that was in a label folder before the first run
StaleContent == <<"stale">>

Front(s) == SubSeq(s, 1, Len(s) - 1)
Last(s) == s[Len(s)]

Range(s) == {s[i] : i \in 1..Len(s)}

VARIABLES
    \* the command line, the same in every run: [oput, txt], oput the --output
    \* format ("copy" or "txt") and txt whether --textfile is given (FALSE: the
    \* images are those of the input folder)
    args,
    \* the file system, which outlives a run
    exists,      \* the image files that exist (paths)
    manifest,    \* label -> [present, lines]: the file <input_folder>/<label>.txt
    folders,     \* the label folders that exist (paths of directories)
    copied,      \* path of a file in a label folder -> its content
    \* the process and its ImageGui object
    pc,          \* "idle" (no process), "active" (mainloop), "done" (quit), "crashed"
    paths,       \* self.paths
    index,       \* self.index
    out_dict,    \* self.out_dict when it is a dictionary: label -> list of paths
    use_dict,    \* the truth value of self.out_dict
    out_file,    \* the truth value of self.out_file
    shown,       \* the path of the image on display (<<>>: none)
    progress,    \* the progress label: <<index, n_paths>> for "index/n_paths"
    err,         \* the exception the last handler or start-up raised ("none")
    effects,     \* what the last handler did, in order
    \* history
    last,        \* the last handler and its inputs
    start,       \* the index the session was constructed with
    resumed,     \* the constructor took the index from the manifest files
    decisions,   \* the labels of this session's decisions that took effect
    runs,        \* launches so far
    removed      \* image files removed from outside so far

fsvars == <<exists, manifest, folders, copied>>
guivars == <<pc, paths, index, out_dict, use_dict, out_file, shown, progress>>
histvars == <<last, start, resumed, decisions, runs, removed>>
vars == <<args, fsvars, guivars, err, effects, histvars>>

n_paths == Len(paths)

NoDict == [l \in {} |-> <<>>]
NoFile == [present |-> FALSE, lines |-> <<>>]
Op(name) == [op |-> name, label |-> "", denied |-> FALSE, key |-> 0]

\* ------------------------------------------------ helpers of the session
\* os.path.basename
basename(p) == Last(p)

\* _copy_image's output_path = os.path.join(root, label, file_name)
output_path(input_path, label) == Front(input_path) \o <<label, Last(input_path)>>

\* copyfile as shutil.move would do it: the source is gone afterwards
copyfile_move(src, dst, denied) ==
    IF src \notin exists \/ Front(dst) \notin folders
    THEN [err |-> "FileNotFoundError", copied |-> copied, exists |-> exists]
    ELSE IF denied
    THEN [err |-> "PermissionError", copied |-> copied, exists |-> exists]
    ELSE [err |-> "none", copied |-> (dst :> src) @@ copied,
          exists |-> exists \ {src}]

\* copyfile refusing a destination that is there already
copyfile_exclusive(src, dst, denied) ==
    IF src \notin exists \/ Front(dst) \notin folders
    THEN [err |-> "FileNotFoundError", copied |-> copied, exists |-> exists]
    ELSE IF denied
    THEN [err |-> "PermissionError", copied |-> copied, exists |-> exists]
    ELSE IF dst \in DOMAIN copied
    THEN [err |-> "FileExistsError", copied |-> copied, exists |-> exists]
    ELSE [err |-> "none", copied |-> (dst :> src) @@ copied, exists |-> exists]

\* shutil.copyfile(src, dst): opens src, then dst for writing (which needs dst's
\* directory and the permission: `denied` is the file system refusing), then
\* writes src's content over whatever dst held. src stays.
copyfile(src, dst, denied) ==
    IF src \notin exists
    THEN [err |-> "FileNotFoundError", copied |-> copied, exists |-> exists]
    ELSE IF Front(dst) \notin folders
    THEN [err |-> "FileNotFoundError", copied |-> copied, exists |-> exists]
    ELSE IF denied
    THEN [err |-> "PermissionError", copied |-> copied, exists |-> exists]
    ELSE [err |-> "none", copied |-> (dst :> src) @@ copied, exists |-> exists]

\* ImageGui._copy_image
copy_image(input_path, label, denied) ==
    copyfile(input_path, output_path(input_path, label), denied)

\* _add_to_dict with insert(0, input_path) in place of append
add_to_dict_prepend(output_dict, input_path, label) ==
    IF label \notin DOMAIN output_dict
    THEN [err |-> "KeyError", dict |-> output_dict]
    ELSE [err |-> "none",
          dict |-> [output_dict EXCEPT ![label] = <<input_path>> \o @]]

\* ImageGui._add_to_dict: output_dict[label].append(input_path); KeyError for a
\* label that is no key
add_to_dict(output_dict, input_path, label) ==
    IF label \notin DOMAIN output_dict
    THEN [err |-> "KeyError", dict |-> output_dict]
    ELSE [err |-> "none",
          dict |-> [output_dict EXCEPT ![label] = Append(@, input_path)]]

\* save with the files opened with 'a': the lines are added to what is there
save_append(od) ==
    [l \in DOMAIN manifest |->
        IF l \in DOMAIN od
        THEN [present |-> TRUE,
              lines |-> manifest[l].lines
                        \o [i \in 1..Len(od[l]) |-> basename(od[l][i])]]
        ELSE manifest[l]]

\* ImageGui.save, for a dictionary od: every key's file is opened with 'w' and
\* gets one line per entry, the entry's base name
save(od) ==
    [l \in DOMAIN manifest |->
        IF l \in DOMAIN od
        THEN [present |-> TRUE,
              lines |-> [i \in 1..Len(od[l]) |-> basename(od[l][i])]]
        ELSE manifest[l]]

RECURSIVE count_lines(_)
\* the lines of the manifest files of the first k labels
count_lines(k) ==
    IF k = 0 THEN 0 ELSE count_lines(k - 1) + Len(manifest[labels[k]].lines)

\* _restart_from_file reading the first label's file only
restart_first_only ==
    IF ~manifest[labels[1]].present
    THEN [err |-> "FileNotFoundError", tot |-> 0]
    ELSE [err |-> "none", tot |-> count_lines(1)]

\* ImageGui._restart_from_file: opens <label>.txt of every label (open raises
\* for a file that is not there) and adds up the line counts. Its body reads
\* the script's global `labels`, not its parameter labs: the same list in a
\* run of the script.
restart_from_file ==
    IF \E k \in 1..n_labels : ~manifest[labels[k]].present
    THEN [err |-> "FileNotFoundError", tot |-> 0]
    ELSE [err |-> "none", tot |-> count_lines(n_labels)]

\* show_next_image with self.index = (self.index + 1) % self.n_paths
show_next_image_wrap(od) ==
    LET i == (index + 1) % n_paths IN
    [index |-> i, progress |-> <<i, n_paths>>,
     shown |-> IF paths[i + 1] \in exists THEN paths[i + 1] ELSE shown,
     pc |-> "active", manifest |-> manifest,
     err |-> IF paths[i + 1] \in exists THEN "none" ELSE "FileNotFoundError",
     effects |-> IF paths[i + 1] \in exists THEN <<"show">> ELSE <<>>]

\* show_next_image that quits at the end without saving
show_next_image_nosave(od) ==
    LET i == index + 1 IN
    IF i < n_paths
    THEN [index |-> i, progress |-> <<i, n_paths>>,
          shown |-> IF paths[i + 1] \in exists THEN paths[i + 1] ELSE shown,
          pc |-> "active", manifest |-> manifest,
          err |-> IF paths[i + 1] \in exists THEN "none" ELSE "FileNotFoundError",
          effects |-> IF paths[i + 1] \in exists THEN <<"show">> ELSE <<>>]
    ELSE [index |-> i, progress |-> <<i, n_paths>>, shown |-> shown,
          pc |-> "done", manifest |-> manifest, err |-> "none",
          effects |-> <<"quit">>]

\* show_next_image with the test `self.index < self.n_paths - 1`
show_next_image_early(od) ==
    LET i == index + 1 IN
    IF i < n_paths - 1
    THEN [index |-> i, progress |-> <<i, n_paths>>,
          shown |-> IF paths[i + 1] \in exists THEN paths[i + 1] ELSE shown,
          pc |-> "active", manifest |-> manifest,
          err |-> IF paths[i + 1] \in exists THEN "none" ELSE "FileNotFoundError",
          effects |-> IF paths[i + 1] \in exists THEN <<"show">> ELSE <<>>]
    ELSE [index |-> i, progress |-> <<i, n_paths>>, shown |-> shown,
          pc |-> "done", manifest |-> IF out_file THEN save(od) ELSE manifest,
          err |-> "none",
          effects |-> IF out_file THEN <<"save", "quit">> ELSE <<"quit">>]

\* ImageGui.show_next_image after a decision that left the dictionary as od:
\* index += 1 and the progress label first; then the next image (set_image
\* raises when the file cannot be opened), or save (with an out_file) and quit
show_next_image(od) ==
    LET i == index + 1 IN
    IF i < n_paths
    THEN IF paths[i + 1] \in exists
         THEN [index |-> i, progress |-> <<i, n_paths>>, shown |-> paths[i + 1],
               pc |-> "active", manifest |-> manifest, err |-> "none",
               effects |-> <<"show">>]
         ELSE [index |-> i, progress |-> <<i, n_paths>>, shown |-> shown,
               pc |-> "active", manifest |-> manifest,
               err |-> "FileNotFoundError", effects |-> <<>>]
    ELSE [index |-> i, progress |-> <<i, n_paths>>, shown |-> shown,
          pc |-> "done", manifest |-> IF out_file THEN save(od) ELSE manifest,
          err |-> "none",
          effects |-> IF out_file THEN <<"save", "quit">> ELSE <<"quit">>]

\* ImageGui.__init__ with paths p, out_dict od (truth value ud) and the truth
\* value of out_file
ImageGui(p, od, ud, of) ==
    LET resume == of /\ manifest[labels[1]].present
        r == IF resume THEN restart_from_file ELSE [err |-> "none", tot |-> 0]
        i == r.tot
        failure == IF r.err # "none" THEN r.err
                   ELSE IF i >= Len(p) THEN "IndexError"
                   ELSE IF p[i + 1] \notin exists THEN "FileNotFoundError"
                   ELSE "none"
    IN  /\ paths' = p
        /\ out_dict' = od
        /\ use_dict' = ud
        /\ out_file' = of
        /\ index' = i
        /\ start' = i
        /\ resumed' = resume
        /\ decisions' = <<>>
        /\ err' = failure
        /\ IF failure = "none"
           THEN /\ pc' = "active"
                /\ shown' = p[i + 1]
                /\ progress' = <<i, Len(p)>>
                /\ effects' = <<"show">>
           ELSE /\ pc' = "crashed"
                /\ shown' = <<>>
                /\ progress' = <<>>
                /\ effects' = <<>>

\* ------------------------------------------------------- the main block
\* os.listdir(input_folder) filtered by the image extensions: the label files
\* (.txt) and the label folders of the input folder do not pass the filter
listing ==
    LET names == SelectSeq(DirOrder, LAMBDA nm : (input_folder \o <<nm>>) \in exists)
    IN  [i \in 1..Len(names) |-> input_folder \o <<names[i]>>]

\* the lines of the --textfile list, each joined to --image_folder
from_textfile(lst) == [i \in 1..Len(lst) |-> imgfold \o lst[i]]

\* "Put all image file paths into a list"
image_paths ==
    IF ~args.txt THEN listing ELSE from_textfile(TextLines)

CanLaunch == pc \in {"idle", "done", "crashed"} /\ runs < MaxRuns

\* python sort_folder.py -o copy: the label folders are made, outdict is never
\* assigned, and `if outdict:` raises NameError before the GUI is built
MainCopy ==
    /\ CanLaunch
    /\ args.oput = "copy"
    /\ folders' = folders \cup {input_folder \o <<labels[k]>> : k \in 1..n_labels}
    /\ paths' = image_paths
    /\ pc' = "crashed"
    /\ err' = "NameError"
    /\ index' = 0 /\ out_dict' = NoDict /\ use_dict' = FALSE /\ out_file' = FALSE
    /\ shown' = <<>> /\ progress' = <<>> /\ effects' = <<>>
    /\ start' = 0 /\ resumed' = FALSE /\ decisions' = <<>>
    /\ last' = Op("main_copy")
    /\ runs' = runs + 1
    /\ UNCHANGED <<args, exists, manifest, copied, removed>>

\* python sort_folder.py -o txt: outdict has an empty list per label and the
\* GUI is built with out_dict=outdict, out_file=input_folder
MainTxt ==
    /\ CanLaunch
    /\ args.oput = "txt"
    /\ ImageGui(image_paths, [l \in LabelSet |-> <<>>], TRUE, TRUE)
    /\ last' = Op("main_txt")
    /\ runs' = runs + 1
    /\ UNCHANGED <<args, fsvars, removed>>

\* ImageGui(root, labels, paths) with the defaults out_dict=False,
\* out_file=False: the copying session, which the main block cannot reach
\* (MainCopy) and a caller of the class can
Construct ==
    /\ CanLaunch
    /\ args.oput = "copy"
    /\ ImageGui(image_paths, NoDict, FALSE, FALSE)
    /\ last' = Op("construct")
    /\ runs' = runs + 1
    /\ UNCHANGED <<args, fsvars, removed>>

\* ----------------------------------------------------------- the handlers
\* vote with the side effect's exception caught and passed over
vote_swallow(label, denied) ==
    /\ pc = "active"
    /\ LET input_path == paths[index + 1]
           a == add_to_dict(out_dict, input_path, label)
           c == copy_image(input_path, label, denied)
           od == IF use_dict THEN a.dict ELSE out_dict
           s == show_next_image(od)
       IN  /\ out_dict' = od
           /\ copied' = IF use_dict THEN copied ELSE c.copied
           /\ exists' = IF use_dict THEN exists ELSE c.exists
           /\ index' = s.index
           /\ progress' = s.progress
           /\ shown' = s.shown
           /\ pc' = s.pc
           /\ manifest' = s.manifest
           /\ err' = s.err
           /\ effects' = s.effects
           /\ decisions' = Append(decisions, label)
           /\ UNCHANGED <<folders, paths, use_dict, out_file>>
    /\ UNCHANGED <<args, start, resumed, runs, removed>>

\* ImageGui.vote(label); `denied`: the file system refuses the write
vote(label, denied) ==
    /\ pc = "active"
    /\ LET input_path == paths[index + 1]
           a == add_to_dict(out_dict, input_path, label)
           c == copy_image(input_path, label, denied)
           failed == IF use_dict THEN a.err ELSE c.err
           od == IF use_dict THEN a.dict ELSE out_dict
           s == show_next_image(od)
       IN  IF failed # "none"
           THEN /\ err' = failed
                /\ effects' = <<>>
                /\ UNCHANGED <<fsvars, guivars, decisions>>
           ELSE /\ out_dict' = od
                /\ copied' = IF use_dict THEN copied ELSE c.copied
                /\ exists' = IF use_dict THEN exists ELSE c.exists
                /\ index' = s.index
                /\ progress' = s.progress
                /\ shown' = s.shown
                /\ pc' = s.pc
                /\ manifest' = s.manifest
                /\ err' = s.err
                /\ effects' = <<IF use_dict THEN "append" ELSE "copy">> \o s.effects
                /\ decisions' = Append(decisions, label)
                /\ UNCHANGED <<folders, paths, use_dict, out_file>>
    /\ UNCHANGED <<args, start, resumed, runs, removed>>

\* a button: command=lambda l=label: self.vote(l); or vote called with a
\* label no button has
Vote ==
    \E label \in LabelSet \cup {OtherLabel}, denied \in BOOLEAN :
        /\ vote(label, denied)
        /\ last' = [op |-> "vote", label |-> label, denied |-> denied, key |-> 0]

\* vote_key with label = self.labels[pressed_key]
vote_key_zero_based(key, denied) ==
    IF key + 1 <= n_labels
    THEN vote(labels[key + 1], denied)
    ELSE /\ pc = "active"
         /\ err' = "IndexError"
         /\ effects' = <<>>
         /\ UNCHANGED <<args, fsvars, guivars, start, resumed, decisions, runs,
                        removed>>

\* ImageGui.vote_key for event.char = key: label = self.labels[pressed_key - 1],
\* a Python index: -1 (key 0) is the last label, one past the end raises
\* IndexError
vote_key(key, denied) ==
    IF key = 0
    THEN vote(labels[n_labels], denied)
    ELSE IF key <= n_labels
    THEN vote(labels[key], denied)
    ELSE /\ pc = "active"
         /\ err' = "IndexError"
         /\ effects' = <<>>
         /\ UNCHANGED <<args, fsvars, guivars, start, resumed, decisions, runs,
                        removed>>

\* every number key bound to vote_key
KeyPress_all_bound ==
    \E key \in 0..(n_labels + 1), denied \in BOOLEAN :
        /\ pc = "active"
        /\ vote_key(key, denied)
        /\ last' = IF key \in 1..n_labels
                   THEN [op |-> "key", label |-> labels[key], denied |-> denied,
                         key |-> key]
                   ELSE [op |-> "unbound_key", label |-> "", denied |-> FALSE,
                         key |-> key]

\* a number key is pressed: only str(key+1) for key in range(n_labels) is bound
\* to vote_key; another key has no handler and nothing runs
KeyPress ==
    \E key \in 0..(n_labels + 1), denied \in BOOLEAN :
        /\ pc = "active"
        /\ IF key \in 1..n_labels
           THEN /\ vote_key(key, denied)
                /\ last' = [op |-> "key", label |-> labels[key], denied |-> denied,
                            key |-> key]
           ELSE /\ last' = [op |-> "unbound_key", label |-> "", denied |-> FALSE,
                            key |-> key]
                /\ err' = "none"
                /\ effects' = <<>>
                /\ UNCHANGED <<args, fsvars, guivars, start, resumed, decisions,
                               runs, removed>>

\* the save button with the lists emptied once they are written
Save_clears ==
    /\ pc = "active"
    /\ manifest' = IF use_dict THEN save(out_dict) ELSE manifest
    /\ out_dict' = [l \in DOMAIN out_dict |-> <<>>]
    /\ err' = IF use_dict THEN "none" ELSE "AttributeError"
    /\ effects' = IF use_dict THEN <<"save">> ELSE <<>>
    /\ last' = Op("save")
    /\ UNCHANGED <<args, exists, folders, copied, pc, paths, index, use_dict,
                   out_file, shown, progress, start, resumed, decisions, runs,
                   removed>>

\* the save button: self.save(); without a dictionary self.out_dict is False
\* and .keys() raises AttributeError
Save ==
    /\ pc = "active"
    /\ IF use_dict
       THEN /\ manifest' = save(out_dict)
            /\ err' = "none"
            /\ effects' = <<"save">>
       ELSE /\ manifest' = manifest
            /\ err' = "AttributeError"
            /\ effects' = <<>>
    /\ last' = Op("save")
    /\ UNCHANGED <<args, exists, folders, copied, guivars, start, resumed,
                   decisions, runs, removed>>

\* ------------------------------------------------------- the environment
\* the window is closed or the process is killed
Kill ==
    /\ pc = "active"
    /\ pc' = "idle"
    /\ paths' = <<>> /\ index' = 0 /\ out_dict' = NoDict /\ use_dict' = FALSE
    /\ out_file' = FALSE /\ shown' = <<>> /\ progress' = <<>>
    /\ err' = "none" /\ effects' = <<>>
    /\ start' = 0 /\ resumed' = FALSE /\ decisions' = <<>>
    /\ last' = Op("kill")
    /\ UNCHANGED <<args, fsvars, runs, removed>>

\* an image file is removed from outside while the session runs: the file of
\* the image it is at, or of the one it comes to next
RemoveFile ==
    /\ pc = "active"
    /\ removed < MaxRemoved
    /\ \E f \in exists \cap {paths[i] : i \in (index + 1)..(index + 2) \cap 1..n_paths} :
        /\ exists' = exists \ {f}
    /\ removed' = removed + 1
    /\ last' = Op("remove")
    /\ UNCHANGED <<args, manifest, folders, copied, guivars, err, effects, start,
                   resumed, decisions, runs>>

\* ------------------------------------------------------------ the system
FirstImages(n) == {input_folder \o <<DirOrder[i]>> : i \in 1..n}
OldFile(k) == [present |-> TRUE, lines |-> [i \in 1..k |-> OldLine]]
StaleFile == output_path(input_folder \o <<DirOrder[1]>>, labels[1])

\* a folder of the input folder that is named like no configured label
OtherFolder == input_folder \o <<OtherLabel>>

\* The input folder holds the first n images, or the list names the images of
\* the image folder. A "txt" user may find manifest files of earlier work; a
\* "copy" user may find a label folder with an earlier file of the same name,
\* or a folder that is no label's (next to one image at most).
Init ==
    /\ args \in [oput : {"copy", "txt"}, txt : BOOLEAN]
    /\ manifest \in [LabelSet -> {NoFile} \cup {OldFile(k) : k \in 0..MaxLines}]
    /\ args.oput = "copy" => \A l \in LabelSet : manifest[l] = NoFile
    /\ \E n \in 0..MaxImages, stale \in BOOLEAN, other \in BOOLEAN :
        /\ args.txt => n = 0
        /\ args.oput = "txt" => (~stale /\ ~other)
        /\ other => (~stale /\ ~args.txt /\ n <= 1)
        /\ exists = FirstImages(n) \cup {imgfold \o e : e \in Range(TextLines)}
        /\ folders = (IF stale THEN {Front(StaleFile)} ELSE {})
                     \cup (IF other THEN {OtherFolder} ELSE {})
        /\ copied = IF stale THEN (StaleFile :> StaleContent) ELSE NoDict
    /\ pc = "idle"
    /\ paths = <<>>
    /\ index = 0
    /\ out_dict = NoDict
    /\ use_dict = FALSE
    /\ out_file = FALSE
    /\ shown = <<>>
    /\ progress = <<>>
    /\ err = "none"
    /\ effects = <<>>
    /\ last = Op("none")
    /\ start = 0
    /\ resumed = FALSE
    /\ decisions = <<>>
    /\ runs = 0
    /\ removed = 0

Next ==
    \/ MainCopy
    \/ MainTxt
    \/ Construct
    \/ Vote
    \/ KeyPress
    \/ Save
    \/ Kill
    \/ RemoveFile

Spec == Init /\ [][Next]_vars

TypeOK ==
    /\ pc \in {"idle", "active", "done", "crashed"}
    /\ index \in Nat
    /\ use_dict \in BOOLEAN
    /\ out_file \in BOOLEAN
    /\ DOMAIN manifest = LabelSet

\* ================================================================ claims
Running == pc \in {"active", "done"}
VoteStep == pc = "active" /\ last'.op \in {"vote", "key"}
FsErrors == {"FileNotFoundError", "PermissionError"}

\* what keeps copyfile from copying p into the folder of label l: the source
\* is gone, the label folder is not there, or the write is refused
CopyPrevented(p, l, d) ==
    \/ p \notin exists
    \/ (Front(p) \o <<l>>) \notin folders
    \/ d

\* C1: in a session started at index 0, after N decisions that took effect
\* (each for a configured label) the index is N, and the session is complete
\* (it has quit, index = number of images) exactly when N is the number of
\* images.
C1_IndexCountsDecisions ==
    (Running /\ start = 0 /\ Range(decisions) \subseteq LabelSet) =>
        /\ index = Len(decisions)
        /\ (pc = "done") <=> (Len(decisions) = n_paths)
        /\ (pc = "done") <=> (index = n_paths)

C1_Witness ==
    /\ pc = "done" /\ start = 0
    /\ n_paths = 3 /\ Len(decisions) = 3 /\ index = 3

RECURSIVE decided(_, _)
\* the images among the first k that were decided for label l, in order
decided(l, k) ==
    IF k = 0 THEN <<>>
    ELSE decided(l, k - 1) \o (IF decisions[k] = l THEN <<paths[k]>> ELSE <<>>)

\* C2: manifest mode, session started at index 0: every label's list holds
\* exactly the images at positions 0..index-1 that were voted for it, in the
\* order of the decisions; so the lists together hold each decided image once.
C2_ManifestIsTheDecisions ==
    (Running /\ use_dict /\ start = 0) =>
        /\ DOMAIN out_dict = LabelSet
        /\ Len(decisions) = index
        /\ \A l \in LabelSet : out_dict[l] = decided(l, index)

C2_Witness ==
    /\ Running /\ use_dict /\ start = 0 /\ index = 3
    /\ Len(out_dict["cat"]) = 2 /\ out_dict["cat"][1] # out_dict["cat"][2]
    /\ Len(out_dict["dog"]) = 1

\* C3: relocate mode: when the copy of a decision is prevented, the decision
\* raises the file-system error, and the index, the image on display and the
\* progress text stay as they were.
C3_FailedCopyDoesNotAdvance ==
    [][(VoteStep /\ ~use_dict
        /\ CopyPrevented(paths[index + 1], last'.label, last'.denied)) =>
            /\ err' \in FsErrors
            /\ index' = index
            /\ shown' = shown
            /\ progress' = progress
            /\ pc' = "active"
            /\ copied' = copied]_vars

C3_Witness ==
    /\ pc = "active" /\ ~use_dict /\ last.op = "vote" /\ last.label \in LabelSet
    /\ err \in FsErrors /\ effects = <<>>
    /\ index = 1

C5_CopyIsThereAndSourceStays ==
    [][(VoteStep /\ ~use_dict
        /\ ~CopyPrevented(paths[index + 1], last'.label, last'.denied)) =>
            LET p == paths[index + 1]
                d == Front(p) \o <<last'.label, Last(p)>>
            IN  /\ d \in DOMAIN copied'
                /\ copied'[d] = p
                /\ p \in exists'
                /\ index' = index + 1]_vars

C5_Witness ==
    /\ ~use_dict /\ last.op \in {"vote", "key"} /\ index = 2
    /\ effects[1] = "copy"
    /\ \E l \in LabelSet :
        /\ last.label = l
        /\ (input_folder \o <<l, "b.jpg">>) \in DOMAIN copied
        /\ (input_folder \o <<"b.jpg">>) \in exists

\* ---------------------------------------------------------------- resume
AllPresent == \A l \in LabelSet : manifest[l].present

RECURSIVE lines_present(_)
\* the lines of the manifest files that are there, over the first k labels
lines_present(k) ==
    IF k = 0 THEN 0
    ELSE lines_present(k - 1)
         + (IF manifest[labels[k]].present THEN Len(manifest[labels[k]].lines) ELSE 0)

PresentTotal == lines_present(n_labels)

\* the image at position PresentTotal is in the list and can be shown
CanShowResumed == PresentTotal < n_paths /\ paths[PresentTotal + 1] \in exists

\* C6: a manifest-mode session constructed when every label has a manifest
\* file starts at the sum of the files' line counts and shows the image at
\* that position (whenever the list has an image at that position that can be
\* loaded, the construction succeeds).
C6_ResumeAtTotalLines ==
    (last.op = "main_txt" /\ AllPresent) =>
        /\ pc = "active" => (index = PresentTotal /\ shown = paths[PresentTotal + 1])
        /\ CanShowResumed => pc = "active"

C6_Witness ==
    /\ last.op = "main_txt" /\ pc = "active"
    /\ Len(manifest["cat"].lines) = 1 /\ manifest["cat"].present
    /\ Len(manifest["dog"].lines) = 1 /\ manifest["dog"].present
    /\ n_paths = 3 /\ index = 2 /\ shown = input_folder \o <<"c.jpg">>

\* C7 as claimed: with some manifest files missing, start-up does not fail
\* and the index is the sum of the line counts of the files that are there.
C7_MissingFilesCountZero ==
    (last.op = "main_txt" /\ ~AllPresent /\ CanShowResumed) =>
        (pc = "active" /\ index = PresentTotal)

\* C8 as claimed: a session resumed from manifest files and run to its end
\* leaves manifest files whose line counts add up to the number of images.
C8_ResumedCompletionKeepsEarlier ==
    (pc = "done" /\ use_dict /\ resumed /\ start < n_paths) =>
        PresentTotal = n_paths

\* ------------------------------------------------------------------ save
\* C9: manifest mode: after a save, every configured label has its file, and
\* the file's lines are the base names of the images recorded for the label,
\* in the order recorded, and nothing else. Labels cat, dog, images a.jpg,
\* b.jpg, c.jpg, votes cat, dog, cat: cat.txt is a.jpg, c.jpg and dog.txt is
\* b.jpg, with index 3 and the session complete.
C9_SaveWritesBasenames ==
    /\ (use_dict /\ "save" \in Range(effects)) =>
        \A l \in LabelSet :
            /\ manifest[l].present
            /\ Len(manifest[l].lines) = Len(out_dict[l])
            /\ \A i \in 1..Len(out_dict[l]) :
                manifest[l].lines[i] = out_dict[l][i][Len(out_dict[l][i])]
    /\ (/\ use_dict /\ start = 0 /\ last.op \in {"vote", "key"}
        /\ paths = <<input_folder \o <<"a.jpg">>, input_folder \o <<"b.jpg">>,
                     input_folder \o <<"c.jpg">>>>
        /\ decisions = <<"cat", "dog", "cat">>) =>
            /\ manifest["cat"] = [present |-> TRUE, lines |-> <<"a.jpg", "c.jpg">>]
            /\ manifest["dog"] = [present |-> TRUE, lines |-> <<"b.jpg">>]
            /\ index = 3
            /\ pc = "done"

C9_Witness ==
    /\ use_dict /\ start = 0 /\ pc = "done" /\ "save" \in Range(effects)
    /\ n_paths = 3
    /\ decisions = <<"cat", "dog", "cat">>
    /\ manifest["cat"].lines = <<"a.jpg", "c.jpg">>
    /\ manifest["dog"].lines = <<"b.jpg">>

\* C10: manifest mode: the decision that brings the index to the number of
\* images records the vote, then saves every label's manifest, then quits,
\* without an error; and a session that has quit at the end has done so by
\* such a step.
C10_LastDecisionSavesThenQuits ==
    /\ [][(VoteStep /\ use_dict /\ index < n_paths /\ index' = n_paths) =>
            /\ effects' = <<"append", "save", "quit">>
            /\ pc' = "done"
            /\ err' = "none"
            /\ \A l \in LabelSet :
                /\ manifest'[l].present
                /\ Len(manifest'[l].lines) = Len(out_dict'[l])]_vars
    /\ []((pc = "done" /\ use_dict) =>
            (effects = <<"append", "save", "quit">> /\ err = "none"
             /\ index = n_paths))

C10_Witness ==
    /\ pc = "done" /\ use_dict /\ index = n_paths /\ n_paths = 2
    /\ effects = <<"append", "save", "quit">>
    /\ resumed /\ start = 1

\* the manifest files hold what the lists in memory would be written as
Flushed ==
    \A l \in LabelSet :
        /\ manifest[l].present
        /\ Len(manifest[l].lines) = Len(out_dict[l])
        /\ \A i \in 1..Len(out_dict[l]) :
            manifest[l].lines[i] = out_dict[l][i][Len(out_dict[l][i])]

\* C11: manifest mode: a save during an active session leaves the index, the
\* image on display, the progress text and the lists in memory as they were
\* and raises nothing; a save that follows a save, with no decision between
\* them, leaves the manifest files as the first one wrote them.
C11_SaveChangesOnlyTheFiles ==
    [][(pc = "active" /\ use_dict /\ last'.op = "save") =>
            /\ index' = index
            /\ shown' = shown
            /\ progress' = progress
            /\ out_dict' = out_dict
            /\ pc' = "active"
            /\ err' = "none"
            /\ (last.op = "save" \/ Flushed) => manifest' = manifest]_vars

C11_Witness ==
    /\ pc = "active" /\ use_dict /\ last.op = "save" /\ effects = <<"save">>
    /\ index = 2 /\ Len(out_dict["cat"]) = 1 /\ Len(out_dict["dog"]) = 1
    /\ Flushed

\* C12: a number key outside 1..N (here 0 or 3, with 2 labels) pressed in an
\* active session raises no error and records nothing: the index, the image
\* on display, the lists in memory, the manifest files and the label folders
\* stay as they were.
C12_UnboundKeyIsIgnored ==
    [][(pc = "active" /\ last'.op = "unbound_key") =>
            /\ last'.key \notin 1..n_labels
            /\ err' = "none"
            /\ index' = index
            /\ shown' = shown
            /\ progress' = progress
            /\ out_dict' = out_dict
            /\ decisions' = decisions
            /\ pc' = "active"
            /\ manifest' = manifest
            /\ copied' = copied
            /\ folders' = folders
            /\ exists' = exists]_vars

C12_Witness ==
    /\ pc = "active" /\ last.op = "unbound_key" /\ last.key = n_labels + 1
    /\ index = 1 /\ err = "none"

\* C13 as claimed: a vote for a label that is not configured raises an error,
\* in either mode, and leaves the index, the lists, the manifest files and the
\* label folders as they were.
C13_UnknownLabelRejected ==
    [][(pc = "active" /\ last'.op = "vote" /\ last'.label \notin LabelSet) =>
            /\ err' # "none"
            /\ index' = index
            /\ out_dict' = out_dict
            /\ manifest' = manifest
            /\ copied' = copied]_vars

\* C14 as claimed: the script run with the copy output makes the folder of
\* every label and then starts a copying session on the first image, without
\* an error.
C14_CopyStartupStartsSession ==
    (last.op = "main_copy" /\ n_paths > 0 /\ paths[1] \in exists) =>
        /\ \A l \in LabelSet : (input_folder \o <<l>>) \in folders
        /\ pc = "active"
        /\ err = "none"
        /\ ~use_dict
        /\ index = 0
        /\ shown = paths[1]

LaunchOps == {"main_copy", "main_txt", "construct"}

\* C15: in every state of a session (from its construction, resumed or not,
\* to its end) 0 <= index <= number of images, and index = number of images
\* exactly when the session has quit; within a session the index never
\* decreases and grows only by one, through a vote whose side effect took
\* place; a session that has quit is active again only as a new run.
C15_IndexBoundedAndMonotonic ==
    /\ [](Running =>
            /\ index \in 0..n_paths
            /\ (pc = "done") <=> (index = n_paths))
    /\ [][(Running /\ last'.op \notin LaunchOps \cup {"kill"}) =>
            /\ pc' \in {"active", "done"}
            /\ index' \in {index, index + 1}
            /\ (index' = index + 1) =>
                (last'.op \in {"vote", "key"} /\ effects'[1] \in {"append", "copy"})]_vars
    /\ [][(pc = "done" /\ pc' = "active") =>
            (last'.op \in LaunchOps /\ runs' = runs + 1)]_vars

C15_Witness ==
    /\ pc = "done" /\ resumed /\ start = 1 /\ index = 3 /\ n_paths = 3
    /\ Len(decisions) = 2

\* C16 as claimed: manifest mode: right after a save, the lines of all label
\* files together are as many as the index.
C16_LinesAfterSaveEqualIndex ==
    (Running /\ use_dict /\ "save" \in Range(effects)) =>
        (AllPresent /\ PresentTotal = index)

\* C17 as claimed: a session constructed with index = number of images (no
\* images at all, or as many manifest lines as images) starts complete, with
\* no image and no failure.
C17_StartsCompleteAtTheEnd ==
    (last.op \in {"main_txt", "construct"} /\ index = n_paths) =>
        (pc = "done" /\ err = "none" /\ shown = <<>>)

\* C18: a press of number key k, 1 <= k <= N, in an active session does what
\* one decision for the k-th configured label on the current image does: in
\* manifest mode the image is appended to that label's list and the index
\* advances by one; in copy mode the image is copied into that label's folder
\* and the index advances by one, or, the copy being prevented, nothing
\* changes and the error is raised.
C18_KeyIsVoteForKthLabel ==
    [][(pc = "active" /\ last'.op = "key") =>
            LET k == last'.key
                l == labels[k]
                p == paths[index + 1]
            IN  /\ k \in 1..n_labels
                /\ last'.label = l
                /\ IF use_dict
                   THEN /\ out_dict' = [out_dict EXCEPT ![l] = Append(@, p)]
                        /\ index' = index + 1
                        /\ decisions' = Append(decisions, l)
                        /\ copied' = copied
                   ELSE IF CopyPrevented(p, l, last'.denied)
                   THEN /\ copied' = copied
                        /\ index' = index
                        /\ decisions' = decisions
                        /\ err' \in FsErrors
                   ELSE /\ copied' = ((Front(p) \o <<l, Last(p)>>) :> p) @@ copied
                        /\ index' = index + 1
                        /\ decisions' = Append(decisions, l)
                        /\ out_dict' = out_dict]_vars

C18_Witness ==
    /\ last.op = "key" /\ last.key = 2 /\ use_dict /\ pc = "active"
    /\ index = 1 /\ start = 0
    /\ out_dict["dog"] = <<paths[1]>> /\ out_dict["cat"] = <<>>

\* C19 as claimed: in every active state the image on display is the one at
\* position index, and the progress text is index/length.
C19_DisplayIsCurrentImage ==
    (pc = "active") =>
        /\ shown = paths[index + 1]
        /\ progress = <<index, n_paths>>

\* C20 as claimed: copy mode: a save raises no error, writes no manifest file
\* and leaves the index and the file system as they were.
C20_SaveInCopyModeIsSilent ==
    [][(pc = "active" /\ ~use_dict /\ last'.op = "save") =>
            /\ err' = "none"
            /\ manifest' = manifest
            /\ index' = index
            /\ copied' = copied
            /\ folders' = folders]_vars

====
